---- MODULE Spec2Model ----
(***************************************************************************)
(* Collisions+Weather.py: hourly weather of two stations is downloaded,    *)
(* patched (combine_first), put on an hourly grid (asfreq), gap-filled     *)
(* (ffill limit 4, precipitation fillna 0.0, bfill), left-joined to the    *)
(* collision events on a derived timestamp, saved and summarised.          *)
(*                                                                         *)
(* Timestamps are whole hours since an epoch.  A DataFrame is the sequence *)
(* of its rows; a row is a record.  A cell that may be missing is <<>>     *)
(* (NaN) or <<v>>.                                                         *)
(***************************************************************************)
EXTENDS Integers, Sequences, FiniteSets, TLC

VARIABLES
    pc,             \* position in the script
    fault,          \* the exception that ended the run, "none" while running
    start_year, end_year, year, month, frames, df_station,  \* download_station
    df_primary, df_backup,      \* get_combined_weather_data
    weather_data,               \* the module-level weather_data
    reconciled, hourly, ffilled,\* history: weather_data after lines 100, 104, 110
    csv_file,                   \* Traffic_Collisions.csv: <<>> missing, <<rows>> present
    df_collisions, df_final, out_csv,
    report                      \* what PART 4 printed

vars == <<pc, fault, start_year, end_year, year, month, frames, df_station,
          df_primary, df_backup, weather_data, reconciled, hourly, ffilled,
          csv_file, df_collisions, df_final, out_csv, report>>

fetchVars == <<start_year, end_year, year, month, frames, df_station>>
weatherVars == <<df_primary, df_backup, weather_data, reconciled, hourly, ffilled>>
collisionVars == <<csv_file, df_collisions>>
outputVars == <<df_final, out_csv, report>>

(***************************************************************************)
(* Bounds of the model.                                                    *)
(***************************************************************************)
\* hours 0..MaxHours-1 of the reconciled series in SpecFill
MaxHours == 7
\* hours 0..MaxT-1 of each station's series in Spec
MaxT == 2
\* collision events joined in Spec
MaxMergeEvents == 1
\* days 0..MaxDay and rows of Traffic_Collisions.csv in SpecCollisions
MaxDay == 1
MaxEvents == 2
\* rows of the merged table in SpecReport
MaxRows == 10
\* first year .. first year + MaxYearSpan, and months that succeed, in SpecFetch
MaxYearSpan == 1
MaxFrames == 3

(***************************************************************************)
(* Program constants.                                                      *)
(***************************************************************************)
FfillLimit == 4
LastMonth == 12
HoursPerDay == 24

NA == <<>>
Some(v) == <<v>>

Cols == {"temperature", "precipitation", "visibility", "weather_desc"}
cols_to_fix == {"temperature", "precipitation", "visibility", "weather_desc"}

Min(S) == CHOOSE x \in S : \A y \in S : x <= y
Max(S) == CHOOSE x \in S : \A y \in S : x >= y

RECURSIVE SortedSeq(_)
SortedSeq(S) == IF S = {} THEN <<>> ELSE <<Min(S)>> \o SortedSeq(S \ {Min(S)})

Reverse(s) == [i \in 1..Len(s) |-> s[Len(s) + 1 - i]]

(***************************************************************************)
(* Frames indexed by weather_datetime.                                     *)
(***************************************************************************)
Index(df) == {df[i].weather_datetime : i \in DOMAIN df}
RowsAt(df, t) == SelectSeq(df, LAMBDA r : r.weather_datetime = t)
Column(df, c) == [i \in DOMAIN df |-> df[i][c]]
NaRow(t) == [c \in Cols \cup {"weather_datetime"} |->
                IF c = "weather_datetime" THEN t ELSE NA]

\* one timestamp of combine_first: per column a's value unless it is NaN
CombineRow(a, b, t) ==
    IF RowsAt(a, t) = <<>> THEN RowsAt(b, t)[1]
    ELSE IF RowsAt(b, t) = <<>> THEN RowsAt(a, t)[1]
    ELSE [c \in DOMAIN RowsAt(a, t)[1] |->
            IF c = "weather_datetime" THEN t
            ELSE IF RowsAt(a, t)[1][c] # NA THEN RowsAt(a, t)[1][c]
            ELSE RowsAt(b, t)[1][c]]

\* combine_first with the precedence of the two stations reversed
combine_first_backup_wins(a, b) ==
    IF b = <<>> THEN a
    ELSE IF a = <<>> THEN b
    ELSE LET order == SortedSeq(Index(a) \cup Index(b))
         IN  [i \in 1..Len(order) |-> CombineRow(b, a, order[i])]

\* df_primary.combine_first(df_backup): the sorted union of the two indexes; per
\* column the caller's value unless it is NaN.  An empty side returns a copy of
\* the other.
combine_first(a, b) ==
    IF b = <<>> THEN a
    ELSE IF a = <<>> THEN b
    ELSE LET order == SortedSeq(Index(a) \cup Index(b))
         IN  [i \in 1..Len(order) |-> CombineRow(a, b, order[i])]

\* asfreq that keeps the rows it finds and adds none
asfreq_existing_rows(df) == df

\* df.asfreq('H') of a non-empty frame: reindex on date_range(min, max, freq='H');
\* an hour the frame lacks becomes a row of NaN.
asfreq(df) ==
    LET lo == Min(Index(df))
        hi == Max(Index(df))
    IN  [i \in 1..(hi - lo + 1) |->
            IF RowsAt(df, lo + i - 1) # <<>> THEN RowsAt(df, lo + i - 1)[1]
            ELSE NaRow(lo + i - 1)]

\* The pad scan behind ffill/bfill: rows are visited in order, a NaN takes the last
\* valid value while fewer than `limit` NaN in a row have been filled (limit NA:
\* None, no limit).
RECURSIVE Pad(_, _, _, _, _)
Pad(vals, i, last, count, limit) ==
    IF i > Len(vals) THEN <<>>
    ELSE IF vals[i] = NA
         THEN IF last # NA /\ (limit = NA \/ count < limit[1])
              THEN <<last>> \o Pad(vals, i + 1, last, count + 1, limit)
              ELSE <<NA>> \o Pad(vals, i + 1, last, count, limit)
         ELSE <<vals[i]>> \o Pad(vals, i + 1, vals[i], 0, limit)

\* weather_data[cols] = filled: the columns cs replaced, the others kept
SetColumns(df, cs, filled) ==
    [i \in DOMAIN df |->
        [k \in DOMAIN df[i] |-> IF k \in cs THEN filled[k][i] ELSE df[i][k]]]

\* a forward fill that leaves a run longer than the limit untouched
ffill_short_runs_only(df, cs, limit) ==
    SetColumns(df, cs,
        [c \in cs |->
            LET col == Column(df, c)
                padded == Pad(col, 1, NA, 0, limit)
            IN  [i \in DOMAIN df |->
                    IF col[i] = NA /\ \E j \in i..Len(col) :
                          /\ padded[j] = NA
                          /\ \A k \in i..j : col[k] = NA
                    THEN NA ELSE padded[i]]])

\* line 110: weather_data[cols_to_fix].ffill(limit=4)
ffill(df, cs, limit) ==
    SetColumns(df, cs, [c \in cs |-> Pad(Column(df, c), 1, NA, 0, limit)])

\* a backward fill held to the limit of the forward fill
bfill_limited(df, cs) ==
    SetColumns(df, cs,
        [c \in cs |-> Reverse(Pad(Reverse(Column(df, c)), 1, NA, 0, Some(FfillLimit)))])

\* line 118: weather_data[cols_to_fix].bfill()
bfill(df, cs) ==
    SetColumns(df, cs,
        [c \in cs |-> Reverse(Pad(Reverse(Column(df, c)), 1, NA, 0, NA))])

\* the zero fill applied after a backward fill of the column
fillna_after_bfill(df, c, v) ==
    LET back == bfill(df, {c})
    IN  [i \in DOMAIN df |->
            IF back[i][c] = NA THEN [back[i] EXCEPT ![c] = Some(v)] ELSE back[i]]

\* line 114: weather_data['precipitation'].fillna(0.0)
fillna(df, c, v) ==
    [i \in DOMAIN df |-> IF df[i][c] = NA THEN [df[i] EXCEPT ![c] = Some(v)] ELSE df[i]]

(***************************************************************************)
(* PART 2: the collision table.  A cell of the CSV is text: OCC_HOUR is a   *)
(* sequence of characters, OCC_DATE a timestamp (its date and, possibly, a  *)
(* time of day).                                                           *)
(***************************************************************************)
DigitValue == ("0" :> 0) @@ ("1" :> 1) @@ ("2" :> 2) @@ ("3" :> 3) @@ ("4" :> 4)
              @@ ("5" :> 5) @@ ("6" :> 6) @@ ("7" :> 7) @@ ("8" :> 8) @@ ("9" :> 9)

RECURSIVE Decimal(_)
Decimal(s) == IF s = <<>> THEN 0
              ELSE 10 * Decimal(SubSeq(s, 1, Len(s) - 1)) + DigitValue[s[Len(s)]]

\* pd.to_numeric(x, errors='coerce'): the number a text spells, NaN for anything else
to_numeric(s) ==
    IF s # <<>> /\ \A i \in DOMAIN s : s[i] \in DOMAIN DigitValue
    THEN Some(Decimal(s)) ELSE NA

\* the record the except branch substitutes: 'GO-2022001', '2022-01-01', 14
DummyDate == 0
Dummy == <<[Event_Unique_ID |-> 1, OCC_DATE |-> DummyDate, OCC_HOUR |-> <<"1", "4">>]>>

\* line 83: pd.to_datetime(OCC_DATE).dt.date, the day of the timestamp
date_clean(df) ==
    [i \in DOMAIN df |-> df[i] @@ ("date_clean" :> df[i].OCC_DATE \div HoursPerDay)]

\* hour_clean with fillna(1)
hour_clean_fills_one(df) ==
    [i \in DOMAIN df |-> df[i] @@ ("hour_clean" :>
        IF to_numeric(df[i].OCC_HOUR) = NA THEN 1 ELSE to_numeric(df[i].OCC_HOUR)[1])]

\* line 86: pd.to_numeric(OCC_HOUR, errors='coerce').fillna(0).astype(int)
hour_clean(df) ==
    [i \in DOMAIN df |-> df[i] @@ ("hour_clean" :>
        IF to_numeric(df[i].OCC_HOUR) = NA THEN 0 ELSE to_numeric(df[i].OCC_HOUR)[1])]

\* lines 89-92: pd.Timestamp(date_clean) + pd.Timedelta(hours=hour_clean)
merge_key(df) ==
    [i \in DOMAIN df |-> df[i] @@ ("merge_key" :>
        df[i].date_clean * HoursPerDay + df[i].hour_clean)]

(***************************************************************************)
(* PART 3: pd.merge(df_collisions, weather_data, left_on='merge_key',      *)
(* right_on='weather_datetime', how='left') after reset_index: every left  *)
(* row once per right row of its key, and once with NaN when there is none.*)
(***************************************************************************)
WeatherCells(r) ==
    [c \in Cols \cup {"weather_datetime"} |->
        IF c = "weather_datetime" THEN Some(r.weather_datetime) ELSE r[c]]
NoWeather == [c \in Cols \cup {"weather_datetime"} |-> NA]

RECURSIVE merge_left(_, _)
merge_left(left, right) ==
    IF left = <<>> THEN <<>>
    ELSE LET hits == RowsAt(right, Head(left).merge_key)
         IN  (IF hits = <<>> THEN <<Head(left) @@ NoWeather>>
              ELSE [j \in 1..Len(hits) |-> Head(left) @@ WeatherCells(hits[j])])
             \o merge_left(Tail(left), right)

(***************************************************************************)
(* PART 4: the coverage line.  missing_weather is a numpy integer, so the  *)
(* division by a zero total gives nan (a warning, no exception); the value *)
(* is printed with two decimals, kept here in hundredths of a percent.     *)
(***************************************************************************)
RoundHalfEven(n, d) ==
    LET q == n \div d
        r == n % d
    IN  IF 2 * r > d \/ (2 * r = d /\ q % 2 = 1) THEN q + 1 ELSE q

missing_count(df) == Cardinality({i \in DOMAIN df : df[i].temperature = NA})

coverage(total_rows, missing_weather) ==
    IF total_rows = 0 THEN [kind |-> "nan", hundredths |-> 0]
    ELSE [kind |-> "percent",
          hundredths |-> RoundHalfEven((total_rows - missing_weather) * 10000, total_rows)]

(***************************************************************************)
(* Inputs.  An observation of station s (0 primary, 1 backup) at hour t    *)
(* carries values that name their column, station and hour, so that where  *)
(* a cell's value came from can be read off it; none of them is 0.         *)
(***************************************************************************)
ColBase(c) == CASE c = "temperature" -> 100
                [] c = "precipitation" -> 200
                [] c = "visibility" -> 300
                [] c = "weather_desc" -> 400

\* which cells of a downloaded row are NaN
Patterns == {"all", "no_temp", "no_precip"}
Missing(p) == CASE p = "all" -> {}
                [] p = "no_temp" -> {"temperature", "weather_desc"}
                [] p = "no_precip" -> {"precipitation", "visibility"}

Obs(s, t, p) ==
    [c \in Cols \cup {"weather_datetime"} |->
        IF c = "weather_datetime" THEN t
        ELSE IF c \in Missing(p) THEN NA
        ELSE Some(ColBase(c) + 10 * s + t)]

\* what download_station returns: rows in time order, "-" an hour without a row
SeriesOf(s, f) ==
    LET hs == SortedSeq({t \in DOMAIN f : f[t] # "-"})
    IN  [i \in 1..Len(hs) |-> Obs(s, hs[i], f[hs[i]])]

StationSeries(s, H) == {SeriesOf(s, f) : f \in [0..(H - 1) -> Patterns \cup {"-"}]}

DigitChars == <<"0", "1", "2", "3", "4", "5", "6", "7", "8", "9">>

\* a collision file of events of day 0 at the hours hs
EventsAt(hs) ==
    [i \in DOMAIN hs |->
        [Event_Unique_ID |-> i, OCC_DATE |-> 0, OCC_HOUR |-> <<DigitChars[hs[i] + 1]>>]]

Keyed(rows) == merge_key(hour_clean(date_clean(rows)))

IdleFetch ==
    /\ start_year = 0 /\ end_year = 0 /\ year = 0 /\ month = 0
    /\ frames = <<>> /\ df_station = <<>>

NoOutput ==
    /\ df_final = <<>> /\ out_csv = NA
    /\ report = [total_rows |-> 0, missing_weather |-> 0, coverage |-> NA]

\* Spec: the script from line 100 on, both stations downloaded, the collisions keyed
Init ==
    /\ pc = "patch" /\ fault = "none"
    /\ IdleFetch
    /\ df_primary \in StationSeries(0, MaxT)
    /\ df_backup \in StationSeries(1, MaxT)
    /\ weather_data = <<>> /\ reconciled = <<>> /\ hourly = <<>> /\ ffilled = <<>>
    /\ \E n \in 1..MaxMergeEvents : \E hs \in [1..n -> 0..MaxT] :
          /\ csv_file = Some(EventsAt(hs))
          /\ df_collisions = Keyed(EventsAt(hs))
    /\ NoOutput

\* SpecFill: the script at line 104, the patched series wider and the backup empty
InitFill ==
    /\ pc = "asfreq" /\ fault = "none"
    /\ IdleFetch
    /\ df_primary \in StationSeries(0, MaxHours)
    /\ df_backup = <<>>
    /\ weather_data = combine_first(df_primary, df_backup)
    /\ reconciled = weather_data /\ hourly = <<>> /\ ffilled = <<>>
    /\ csv_file = NA
    /\ df_collisions = Keyed(Dummy)
    /\ NoOutput

(***************************************************************************)
(* The statements of PART 3 and PART 4.                                    *)
(***************************************************************************)
\* lines 53-65 and 100
Patch ==
    /\ pc = "patch"
    /\ weather_data' = combine_first(df_primary, df_backup)
    /\ reconciled' = weather_data'
    /\ pc' = "asfreq"
    /\ UNCHANGED <<fault, fetchVars, df_primary, df_backup, hourly, ffilled,
                   collisionVars, outputVars>>

\* line 104.  pd.DataFrame() (no month of either station retrieved) has a
\* RangeIndex, on which asfreq raises TypeError.
AsFreq ==
    /\ pc = "asfreq"
    /\ IF weather_data = <<>>
       THEN /\ pc' = "crashed" /\ fault' = "TypeError"
            /\ UNCHANGED <<weather_data, hourly>>
       ELSE /\ weather_data' = asfreq(weather_data)
            /\ hourly' = weather_data'
            /\ pc' = "ffill" /\ UNCHANGED fault
    /\ UNCHANGED <<fetchVars, df_primary, df_backup, reconciled, ffilled,
                   collisionVars, outputVars>>

\* lines 107-110
FFill ==
    /\ pc = "ffill"
    /\ weather_data' = ffill(weather_data, cols_to_fix, Some(FfillLimit))
    /\ ffilled' = weather_data'
    /\ pc' = "fillna"
    /\ UNCHANGED <<fault, fetchVars, df_primary, df_backup, reconciled, hourly,
                   collisionVars, outputVars>>

\* line 114
FillPrecip ==
    /\ pc = "fillna"
    /\ weather_data' = fillna(weather_data, "precipitation", 0)
    /\ pc' = "bfill"
    /\ UNCHANGED <<fault, fetchVars, df_primary, df_backup, reconciled, hourly, ffilled,
                   collisionVars, outputVars>>

\* line 118
BFill ==
    /\ pc = "bfill"
    /\ weather_data' = bfill(weather_data, cols_to_fix)
    /\ pc' = "merge"
    /\ UNCHANGED <<fault, fetchVars, df_primary, df_backup, reconciled, hourly, ffilled,
                   collisionVars, outputVars>>

\* lines 121-131
Merge ==
    /\ pc = "merge"
    /\ df_final' = merge_left(df_collisions, weather_data)
    /\ pc' = "save"
    /\ UNCHANGED <<fault, fetchVars, weatherVars, collisionVars, out_csv, report>>

\* line 134
Save ==
    /\ pc = "save"
    /\ out_csv' = Some(df_final)
    /\ pc' = "report"
    /\ UNCHANGED <<fault, fetchVars, weatherVars, collisionVars, df_final, report>>

\* lines 140-146
Report ==
    /\ pc = "report"
    /\ report' = [total_rows |-> Len(df_final),
                  missing_weather |-> missing_count(df_final),
                  coverage |-> Some(coverage(Len(df_final), missing_count(df_final)))]
    /\ pc' = "sample"
    /\ UNCHANGED <<fault, fetchVars, weatherVars, collisionVars, df_final, out_csv>>

\* lines 148-149: df_final has no column 'is_rain'
Sample ==
    /\ pc = "sample"
    /\ pc' = "crashed" /\ fault' = "KeyError"
    /\ UNCHANGED <<fetchVars, weatherVars, collisionVars, outputVars>>

NextFill == AsFreq \/ FFill \/ FillPrecip \/ BFill

Next == Patch \/ AsFreq \/ FFill \/ FillPrecip \/ BFill \/ Merge \/ Save \/ Report \/ Sample

Spec == Init /\ [][Next]_vars
SpecFill == InitFill /\ [][NextFill]_vars

(***************************************************************************)
(* Properties of the reconciliation and normalisation stages.              *)
(***************************************************************************)
\* the value a frame holds for column c at hour t, NaN when it has no such row
ValueAt(df, t, c) == IF RowsAt(df, t) = <<>> THEN NA ELSE RowsAt(df, t)[1][c]
Known(t, c) == ValueAt(reconciled, t, c) # NA

AfterAsFreq == pc \in {"ffill", "fillna", "bfill", "merge", "save", "report", "sample"}
AfterFFill == pc \in {"fillna", "bfill", "merge", "save", "report", "sample"}
AfterBFill == pc \in {"merge", "save", "report", "sample"}

\* a maximal run p+1..q of NaN in column c of the hourly grid, right after a value at p
RunAfter(c, p, q) ==
    /\ p \in DOMAIN hourly /\ q \in DOMAIN hourly /\ p < q
    /\ hourly[p][c] # NA
    /\ \A k \in (p + 1)..q : hourly[k][c] = NA
    /\ (q = Len(hourly) \/ hourly[q + 1][c] # NA)

\* C1: after asfreq the grid holds exactly one row for every hour from the smallest
\* to the largest timestamp of the reconciled series, in time order, and no other row.
C1_OneRowPerHour ==
    AfterAsFreq =>
        LET lo == Min(Index(reconciled))
            hi == Max(Index(reconciled))
        IN  /\ Len(weather_data) = hi - lo + 1
            /\ \A t \in lo..hi : Len(RowsAt(weather_data, t)) = 1
            /\ \A i \in DOMAIN weather_data : weather_data[i].weather_datetime = lo + i - 1

\* C1 witness: a reconciled series with a missing hour has been put on the grid
C1_GapRegridded ==
    /\ pc = "ffill"
    /\ \E t \in Min(Index(reconciled))..Max(Index(reconciled)) :
          /\ t \notin Index(reconciled)
          /\ t \in Index(weather_data)

\* C2 as claimed: after the three fills no cell of the four attributes is NaN
C2_NoCellAbsent ==
    AfterBFill =>
        \A i \in DOMAIN weather_data : \A c \in Cols : weather_data[i][c] # NA

\* C2 amended: after the three fills precipitation is never NaN, and a cell of another
\* attribute is NaN exactly when the reconciled series has no value of that attribute
\* at its hour, at any later hour, or at any of the 4 hours before it.
C2_AbsentOnlyInTrailingGap ==
    AfterBFill =>
        \A i \in DOMAIN weather_data : \A c \in Cols :
            LET t == weather_data[i].weather_datetime
            IN  weather_data[i][c] = NA <=>
                   /\ c # "precipitation"
                   /\ \A u \in (t - FfillLimit)..Max(Index(reconciled)) : ~Known(u, c)

\* C2 witness: a value is known, the series goes on for more than 4 hours without
\* one, and the cells past the 4th hour are still NaN after the three fills
C2_TrailingGapLeft ==
    /\ AfterBFill
    /\ \E i \in DOMAIN weather_data : \E p \in DOMAIN weather_data :
          /\ p + FfillLimit < i
          /\ hourly[p].temperature # NA
          /\ weather_data[i].temperature = NA

\* C3 as claimed: a run of at most 4 NaN after a value V is filled with V by the
\* forward fill, and of a run of 5 or more it fills no hour.
C3_LongRunUntouched ==
    AfterFFill =>
        \A c \in Cols : \A p \in DOMAIN hourly : \A q \in DOMAIN hourly :
            RunAfter(c, p, q) =>
                \A k \in (p + 1)..q :
                    ffilled[k][c] = (IF q - p <= FfillLimit THEN hourly[p][c] ELSE NA)

\* C3 amended: a run of at most 4 NaN after a value V is filled with V by the forward
\* fill; of a run of 5 or more the first 4 hours are filled with V and the hours from
\* the 5th on stay NaN.
C3_FirstFourFilled ==
    AfterFFill =>
        \A c \in Cols : \A p \in DOMAIN hourly : \A q \in DOMAIN hourly :
            RunAfter(c, p, q) =>
                \A k \in (p + 1)..q :
                    ffilled[k][c] = (IF k - p <= FfillLimit THEN hourly[p][c] ELSE NA)

\* C3 witness: the forward fill has run over a run of 5 or more NaN after a value
C3_LongRunSeen ==
    /\ pc = "fillna"
    /\ \E p \in DOMAIN hourly : \E q \in DOMAIN hourly :
          RunAfter("temperature", p, q) /\ q - p > FfillLimit

\* C4: after the three fills the precipitation of every grid hour is present; it is
\* the reconciled value when there is one, else the value the forward fill carried
\* there, else 0; and a value other than 0 is the reconciled value of that hour or
\* of an earlier one.
C4_PrecipNeverFromLater ==
    AfterBFill =>
        \A i \in DOMAIN weather_data :
            LET t == weather_data[i].weather_datetime
                final == weather_data[i].precipitation
            IN  /\ final # NA
                /\ Known(t, "precipitation") =>
                       final = ValueAt(reconciled, t, "precipitation")
                /\ (~Known(t, "precipitation") /\ ffilled[i].precipitation # NA) =>
                       final = ffilled[i].precipitation
                /\ (~Known(t, "precipitation") /\ ffilled[i].precipitation = NA) =>
                       final = Some(0)
                /\ final # Some(0) =>
                       \E u \in Min(Index(reconciled))..t :
                           /\ Known(u, "precipitation")
                           /\ final = ValueAt(reconciled, u, "precipitation")

\* C4 witness: the first hour has no precipitation, a later hour has, and the first
\* hour ends as 0
C4_LeadingGapZero ==
    /\ AfterBFill
    /\ hourly[1].precipitation = NA
    /\ \E j \in DOMAIN hourly : hourly[j].precipitation # NA
    /\ weather_data[1].precipitation = Some(0)

\* C5: the reconciled series has one row for each timestamp of either station; each
\* attribute is the primary's value when it has one, else the backup's; a timestamp
\* only the backup has carries the backup's row; an empty side returns the other.
C5_PriorityMerge ==
    pc # "patch" =>
        /\ Index(reconciled) = Index(df_primary) \cup Index(df_backup)
        /\ \A t \in Index(reconciled) :
              /\ Len(RowsAt(reconciled, t)) = 1
              /\ \A c \in Cols :
                    ValueAt(reconciled, t, c) =
                        (IF ValueAt(df_primary, t, c) # NA
                         THEN ValueAt(df_primary, t, c) ELSE ValueAt(df_backup, t, c))
              /\ t \notin Index(df_primary) => RowsAt(reconciled, t) = RowsAt(df_backup, t)
        /\ df_backup = <<>> => reconciled = df_primary
        /\ df_primary = <<>> => reconciled = df_backup

\* C5 witness: at one timestamp the temperature came from the backup and the
\* precipitation from the primary, both stations having a value for the latter
C5_MixedRow ==
    /\ pc = "asfreq"
    /\ \E t \in Index(df_primary) \cap Index(df_backup) :
          /\ ValueAt(df_primary, t, "temperature") = NA
          /\ ValueAt(df_backup, t, "temperature") # NA
          /\ ValueAt(reconciled, t, "temperature") = ValueAt(df_backup, t, "temperature")
          /\ ValueAt(df_backup, t, "precipitation") # NA
          /\ ValueAt(reconciled, t, "precipitation") = ValueAt(df_primary, t, "precipitation")
          /\ ValueAt(df_primary, t, "precipitation") # NA

\* C6: when the normalisation and merge stage is over, the merge output has one row
\* per collision event, in input order, whatever the grid, the empty one included.
C6_OneRowPerEvent ==
    (pc \in {"save", "report", "sample"} \/ fault # "none") =>
        /\ Len(df_final) = Len(df_collisions)
        /\ \A i \in DOMAIN df_final :
              df_final[i].Event_Unique_ID = df_collisions[i].Event_Unique_ID

(***************************************************************************)
(* SpecCollisions: PART 2, lines 70-92, from the collision file.           *)
(***************************************************************************)
TimesOfDay == {0, 5}
DateStamps == {d * HoursPerDay + h : d \in 0..MaxDay, h \in TimesOfDay}
RawHours == {<<>>, <<"0">>, <<"7">>, <<"1", "4">>, <<"2", "3">>,
             <<"a", "b", "c">>, <<"1", "a">>}

FileTables ==
    UNION {[1..n -> [OCC_DATE : DateStamps, OCC_HOUR : RawHours]] : n \in 0..MaxEvents}

WithIds(rows) ==
    [i \in DOMAIN rows |->
        [Event_Unique_ID |-> i, OCC_DATE |-> rows[i].OCC_DATE, OCC_HOUR |-> rows[i].OCC_HOUR]]

NoWeatherYet ==
    /\ df_primary = <<>> /\ df_backup = <<>> /\ weather_data = <<>>
    /\ reconciled = <<>> /\ hourly = <<>> /\ ffilled = <<>>

InitCollisions ==
    /\ pc = "load" /\ fault = "none"
    /\ IdleFetch /\ NoWeatherYet /\ NoOutput
    /\ \/ csv_file = NA
       \/ \E rows \in FileTables : csv_file = Some(WithIds(rows))
    /\ df_collisions = <<>>

\* lines 70-80: read the file; FileNotFoundError prints a message and puts the
\* one-row table in its place
Load ==
    /\ pc = "load"
    /\ df_collisions' = (IF csv_file = NA THEN Dummy ELSE csv_file[1])
    /\ pc' = "clean_date"
    /\ UNCHANGED <<fault, fetchVars, weatherVars, csv_file, outputVars>>

\* line 83
CleanDate ==
    /\ pc = "clean_date"
    /\ df_collisions' = date_clean(df_collisions)
    /\ pc' = "clean_hour"
    /\ UNCHANGED <<fault, fetchVars, weatherVars, csv_file, outputVars>>

\* line 86
CleanHour ==
    /\ pc = "clean_hour"
    /\ df_collisions' = hour_clean(df_collisions)
    /\ pc' = "merge_key"
    /\ UNCHANGED <<fault, fetchVars, weatherVars, csv_file, outputVars>>

\* lines 89-92.  On a table without rows apply(axis=1) returns a frame, not a
\* column; assigning it to one column raises ValueError or passes, by pandas release.
MakeKey ==
    /\ pc = "merge_key"
    /\ \/ /\ df_collisions # <<>>
          /\ df_collisions' = merge_key(df_collisions)
          /\ pc' = "keyed" /\ UNCHANGED fault
       \/ /\ df_collisions = <<>>
          /\ pc' = "keyed" /\ UNCHANGED <<fault, df_collisions>>
       \/ /\ df_collisions = <<>>
          /\ pc' = "crashed" /\ fault' = "ValueError" /\ UNCHANGED df_collisions
    /\ UNCHANGED <<fetchVars, weatherVars, csv_file, outputVars>>

NextCollisions == Load \/ CleanDate \/ CleanHour \/ MakeKey
SpecCollisions == InitCollisions /\ [][NextCollisions]_vars

\* the hour each text of RawHours spells, 0 for one that spells none
ExpectedHour == (<<>> :> 0) @@ (<<"0">> :> 0) @@ (<<"7">> :> 7) @@ (<<"1", "4">> :> 14)
                @@ (<<"2", "3">> :> 23) @@ (<<"a", "b", "c">> :> 0) @@ (<<"1", "a">> :> 0)

\* C7: with the collision file missing the run stops at the load as a configuration
\* error; it does not go on with the placeholder record (the script has no switch
\* that selects a degraded or test mode).
C7_MissingFileStopsRun ==
    csv_file = NA => pc \in {"load", "crashed"}

\* C9: the join key of an event is the midnight of its occurrence date plus its hour,
\* an hour text that spells no number counting as 0; no hour text ends the run; two
\* events of the same date and hour text get the same key, and "abc" the key of "0".
C9_KeyIsMidnightPlusHour ==
    /\ (csv_file # NA /\ csv_file[1] # <<>>) => fault = "none"
    /\ pc = "keyed" =>
          /\ \A i \in DOMAIN df_collisions :
                df_collisions[i].merge_key =
                    df_collisions[i].OCC_DATE - (df_collisions[i].OCC_DATE % HoursPerDay)
                    + ExpectedHour[df_collisions[i].OCC_HOUR]
          /\ \A i \in DOMAIN df_collisions : \A j \in DOMAIN df_collisions :
                /\ (/\ df_collisions[i].OCC_DATE = df_collisions[j].OCC_DATE
                    /\ df_collisions[i].OCC_HOUR = df_collisions[j].OCC_HOUR)
                   => df_collisions[i].merge_key = df_collisions[j].merge_key
                /\ (/\ df_collisions[i].OCC_DATE = df_collisions[j].OCC_DATE
                    /\ df_collisions[i].OCC_HOUR = <<"a", "b", "c">>
                    /\ df_collisions[j].OCC_HOUR = <<"0">>)
                   => df_collisions[i].merge_key = df_collisions[j].merge_key

\* C9 witness: a keyed table with an event of hour "abc" and one of hour "0" on the
\* same date, past midnight, and an event of hour "14"
C9_AbcBesideZero ==
    /\ pc = "keyed"
    /\ \E i \in DOMAIN df_collisions : \E j \in DOMAIN df_collisions :
          /\ df_collisions[i].OCC_HOUR = <<"a", "b", "c">>
          /\ df_collisions[j].OCC_HOUR = <<"0">>
          /\ df_collisions[i].OCC_DATE = df_collisions[j].OCC_DATE
          /\ df_collisions[i].OCC_DATE % HoursPerDay # 0
          /\ df_collisions[i].merge_key = df_collisions[j].merge_key

(***************************************************************************)
(* SpecReport: PART 4, lines 140-149, from a merged table.                 *)
(***************************************************************************)
\* an event of hour 0 finds the one grid row, an event of hour 1 finds none
InitReport ==
    /\ pc = "report" /\ fault = "none"
    /\ IdleFetch
    /\ df_primary = <<Obs(0, 0, "all")>> /\ df_backup = <<>>
    /\ weather_data = fillna(df_primary, "precipitation", 0)
    /\ reconciled = df_primary /\ hourly = df_primary /\ ffilled = df_primary
    /\ \E n \in 0..MaxRows : \E hs \in [1..n -> {0, 1}] :
          /\ csv_file = Some(EventsAt(hs))
          /\ df_collisions = Keyed(EventsAt(hs))
    /\ df_final = merge_left(df_collisions, weather_data)
    /\ out_csv = Some(df_final)
    /\ report = [total_rows |-> 0, missing_weather |-> 0, coverage |-> NA]

NextReport == Report \/ Sample
SpecReport == InitReport /\ [][NextReport]_vars

\* C8: the reported coverage is (total - missing) / total * 100 to two decimals when
\* there are events, and an explicit undefined value, not NaN, when there are none.
C8_CoverageGuarded ==
    report.coverage # NA =>
        IF report.total_rows > 0
        THEN /\ report.coverage[1].kind = "percent"
             /\ 2 * report.coverage[1].hundredths * report.total_rows
                   <= 2 * (report.total_rows - report.missing_weather) * 10000
                      + report.total_rows
             /\ 2 * report.coverage[1].hundredths * report.total_rows
                   >= 2 * (report.total_rows - report.missing_weather) * 10000
                      - report.total_rows
        ELSE report.coverage[1].kind = "undefined"

(***************************************************************************)
(* SpecFetch: download_station, lines 9-51.  The loop variables advance as *)
(* range() makes them; one Request is one requests.get with what follows   *)
(* it inside the try.  requests.get is called without timeout=, so a       *)
(* server that accepts the connection and sends nothing keeps it waiting.  *)
(* A retrieved month table stands as <<year, month>>; the CSV is taken to  *)
(* carry the column names the rename and the selection of line 51 expect.  *)
(***************************************************************************)
FirstYear == 2014
Years == FirstYear..(FirstYear + MaxYearSpan)
Outcomes == {"table", "not_200", "station_not_found", "exception"}

InitFetch ==
    /\ pc = "for_year" /\ fault = "none"
    /\ start_year \in Years /\ end_year \in Years
    /\ year = start_year /\ month = 1
    /\ frames = <<>> /\ df_station = <<>>
    /\ NoWeatherYet /\ NoOutput
    /\ csv_file = NA /\ df_collisions = <<>>

\* line 14
ForYear ==
    /\ pc = "for_year"
    /\ IF year <= end_year
       THEN month' = 1 /\ pc' = "request"
       ELSE pc' = "after_loop" /\ UNCHANGED month
    /\ UNCHANGED <<fault, start_year, end_year, year, frames, df_station,
                   weatherVars, collisionVars, outputVars>>

\* lines 16-27, one pass of the month loop whose request returns or raises
Request ==
    /\ pc = "request"
    /\ \E outcome \in Outcomes :
          IF outcome = "table"
          THEN /\ Len(frames) < MaxFrames
               /\ frames' = Append(frames, <<year, month>>)
          ELSE UNCHANGED frames
    /\ IF month < LastMonth
       THEN month' = month + 1 /\ pc' = "request"
       ELSE pc' = "year_done" /\ UNCHANGED month
    /\ UNCHANGED <<fault, start_year, end_year, year, df_station,
                   weatherVars, collisionVars, outputVars>>

\* line 20, a request that neither returns nor raises
RequestHangs ==
    /\ pc = "request"
    /\ pc' = "blocked"
    /\ UNCHANGED <<fault, fetchVars, weatherVars, collisionVars, outputVars>>

\* line 30 and the step of the year loop
YearDone ==
    /\ pc = "year_done"
    /\ year' = year + 1
    /\ pc' = "for_year"
    /\ UNCHANGED <<fault, start_year, end_year, month, frames, df_station,
                   weatherVars, collisionVars, outputVars>>

\* lines 32-51
Return ==
    /\ pc = "after_loop"
    /\ df_station' = [i \in DOMAIN frames |-> [year |-> frames[i][1], month |-> frames[i][2]]]
    /\ pc' = "returned"
    /\ UNCHANGED <<fault, start_year, end_year, year, month, frames,
                   weatherVars, collisionVars, outputVars>>

NextFetch == ForYear \/ Request \/ RequestHangs \/ YearDone \/ Return
SpecFetch == InitFetch /\ [][NextFetch]_vars
\* the interpreter runs the next statement whenever there is one
FairSpecFetch == SpecFetch /\ WF_vars(NextFetch)

\* C10: download_station eventually returns, whatever the monthly attempts do
C10_EventuallyReturns == <>(pc = "returned")

====
